---------------------------- MODULE Spec2Model ----------------------------
(***************************************************************************)
(* Model of udsoncan/__init__.py: the Request and Response framers, the    *)
(* response code taxonomy, the Dtc status byte, DidCodec.from_config and   *)
(* the Connection receive path.                                            *)
(*                                                                         *)
(* Python values are represented as follows.                               *)
(*   - an optional integer (code, subfunction) is the integer, or None;    *)
(*     NotAnInt stands for any value that is not an int (a string, ...);   *)
(*   - data is a record [t, v]: t is the Python type ("None", "bytes",     *)
(*     "str") and v the sequence of byte / character values;               *)
(*   - a payload is a sequence of byte values (a Python 3 bytes object:    *)
(*     indexing gives an int, slicing gives bytes);                        *)
(*   - a service is the name of a registered service class, ServiceNone    *)
(*     (Python None), ServiceUnset (the attribute was never assigned) or   *)
(*     ServiceOther (an object that is no service);                        *)
(*   - the result of a call is a record holding the returned value and     *)
(*     `raised`, the name of the exception that left the call ("" if none).*)
(***************************************************************************)
EXTENDS Integers, Sequences, FiniteSets, TLC

VARIABLES
    \* ---- framers (Request / Response) ----
    obj,        \* the object in hand: a Request, a Response, a Dtc, a DidCodec
                \* or the value the last call returned
    orig,       \* the object that get_payload serialised (round trips), or the
                \* argument of the last call
    wire,       \* the payload in hand: [present, bytes]
    last,       \* the last call on a value: [op, raised], with the value it
                \* returned or was given where the object in hand is kept
    \* ---- Connection ----
    opened,          \* self.opened
    exit_requested,  \* self.exit_requested
    rxqueue,         \* self.rxqueue, oldest frame first
    rxthread,        \* self.rxthread: "initial", "started" (start() was called)
    rxpc,            \* position of rxthread_task: "idle", "test", "recv", "done"
    bound,           \* self.tpsock.bound
    socket_defined,    \* whether the global name `socket` resolves in rxthread_task
    topsock_defined, \* whether the global name `topsock` resolves in __init__, that
                     \* is, whether the constructor returned a Connection
    callpc,          \* position of the caller: "idle", "get" (blocked in
                     \* rxqueue.get), "empty_test", "empty_get" (in empty_rxqueue),
                     \* "open_clear", "open_start", "open_opened" (in open, about
                     \* to run line 29, 30, 31), "close_socket", "close_opened"
                     \* (in close, about to run line 57, 58), "exit_socket",
                     \* "exit_opened" (the same, in the close() of __exit__)
    callarg,         \* the arguments of the wait_frame in progress:
                     \* [exception, timeout]
    scope,           \* whether the caller is inside a `with` block on the connection
    result,          \* outcome of the caller's last call
    recvlog,         \* the non-absent values tpsock.recv() has returned, in order
    delivered,       \* the frames wait_frame has returned, in order
    drained,         \* whether empty_rxqueue has been called
    taken,           \* who took each frame that left rxqueue, in order: "wait"
                     \* (wait_frame) or "empty" (empty_rxqueue)
    rxerror,         \* whether tpsock.recv() has raised an error other than a
                     \* timeout since open() last cleared exit_requested
    history          \* the calls of open() and close() so far: "", "o", "oc",
                     \* "oco" (open, close, open), or "other"

framer_vars == <<obj, orig, wire, last>>
conn_vars == <<opened, exit_requested, rxqueue, rxthread, rxpc, bound, socket_defined,
               topsock_defined,
               callpc, callarg, scope, result, recvlog, delivered, drained, taken,
               rxerror, history>>
vars == <<framer_vars, conn_vars>>

-----------------------------------------------------------------------------
(* Bounds of the model *)

\* longest data argument given to a constructor
MaxDataLen == 2
\* longest payload handed to from_payload as a received frame
MaxPayloadLen == 4
\* number of frames the transport delivers
MaxFrames == 3

-----------------------------------------------------------------------------
(* Python values *)

\* two values outside the integers the model passes as arguments
None == 1000
NotAnInt == 1001

\* isinstance(x, int)
IsInt(x) == x \notin {None, NotAnInt}

NoData == [t |-> "None", v |-> <<>>]
Bytes(s) == [t |-> "bytes", v |-> s]
Str(s) == [t |-> "str", v |-> s]

SeqsUpTo(S, n) == UNION {[1..k -> S] : k \in 0..n}

\* payload[from:] with from counted from 0, as a Python slice
SliceFrom(s, from) == SubSeq(s, from + 1, Len(s))

\* x | 0x80, x & 0x7F and x & 0x80 on Python integers (two's complement)
Or80(x) == IF (x \div 128) % 2 = 1 THEN x ELSE x + 128
And7F(x) == x % 128
And80(x) == IF (x \div 128) % 2 = 1 THEN 128 ELSE 0

\* struct.pack("B", x): one byte, struct.error outside 0..255
PackB(x) == IF x \in 0..255 THEN [raised |-> "", bytes |-> <<x>>]
            ELSE [raised |-> "struct.error", bytes |-> <<>>]

-----------------------------------------------------------------------------
(* The service registry (module udsoncan.services) *)

ServiceNone == "None"
ServiceUnset == "Unset"
ServiceOther == "Other"

\* name |-> [sid, subfn, rdata]
Registry ==
    [ DiagnosticSessionControl   |-> [sid |-> 16, subfn |-> TRUE,  rdata |-> TRUE],
      ClearDiagnosticInformation |-> [sid |-> 20, subfn |-> FALSE, rdata |-> FALSE],
      ReadDataByIdentifier       |-> [sid |-> 34, subfn |-> FALSE, rdata |-> TRUE],
      TesterPresent              |-> [sid |-> 62, subfn |-> TRUE,  rdata |-> FALSE] ]

Services == DOMAIN Registry

request_id(s) == Registry[s].sid
response_id(s) == Registry[s].sid + 64
use_subfunction(s) == Registry[s].subfn
has_response_data(s) == Registry[s].rdata

cls_from_request_id(id) ==
    IF \E s \in Services : request_id(s) = id
    THEN CHOOSE s \in Services : request_id(s) = id
    ELSE ServiceNone

cls_from_response_id(id) ==
    IF \E s \in Services : response_id(s) = id
    THEN CHOOSE s \in Services : response_id(s) = id
    ELSE ServiceNone

-----------------------------------------------------------------------------
(* Response.Code *)

\* the int members of Response.Code, in the order of inspect.getmembers (by name)
CodeMembers ==
    <<
       <<"AccessDenied", 60>>,
       <<"AuditTrailInformationNotAvailable", 64>>,
       <<"BrakeSwitchNotClosed", 143>>,
       <<"BusyRepeatRequest", 33>>,
       <<"CertificateNotAvailable", 63>>,
       <<"ConditionsNotCorrect", 34>>,
       <<"EngineIsNotRunning", 132>>,
       <<"EngineIsRunning", 131>>,
       <<"EngineRunTimeTooLow", 133>>,
       <<"ExceedNumberOfAttempts", 54>>,
       <<"FailurePreventsExecutionOfRequestedAction", 38>>,
       <<"GeneralProgrammingFailure", 114>>,
       <<"GeneralReject", 16>>,
       <<"GeneralSecurityViolation", 56>>,
       <<"ISOSAEReserved", 142>>,
       <<"IncorrectMessageLegthOrInvalidFormat", 19>>,
       <<"InsufficientProtection", 58>>,
       <<"InvalidKey", 53>>,
       <<"NoResponseFromSubnetComponent", 37>>,
       <<"PositiveResponse", 0>>,
       <<"RequestCorrectlyReceived_ResponsePending", 120>>,
       <<"RequestOutOfRange", 49>>,
       <<"RequestSequenceError", 36>>,
       <<"RequiredTimeDelayNotExpired", 55>>,
       <<"ResponseTooLong", 20>>,
       <<"RpmTooHigh", 129>>,
       <<"RpmTooLow", 130>>,
       <<"SecuredLinkNotSupported", 62>>,
       <<"SecuredModeRequested", 57>>,
       <<"SecurityAccessDenied", 51>>,
       <<"ServiceNotSupported", 17>>,
       <<"ServiceNotSupportedInActiveSession", 127>>,
       <<"ShifterLeverNotInPark", 144>>,
       <<"SubFunctionNotSupported", 18>>,
       <<"SubFunctionNotSupportedInActiveSession", 126>>,
       <<"TemperatureTooHigh", 134>>,
       <<"TemperatureTooLow", 135>>,
       <<"TerminationWithSignatureRequested", 59>>,
       <<"ThrottlePedalTooHigh", 138>>,
       <<"ThrottlePedalTooLow", 139>>,
       <<"TorqueConverterClutchLocked", 145>>,
       <<"TransferDataSuspended", 113>>,
       <<"TransmissionRangeNotInGear", 141>>,
       <<"TransmissionRangeNotInNeutral", 140>>,
       <<"UploadDownloadNotAccepted", 112>>,
       <<"VehicleSpeedTooHigh", 136>>,
       <<"VehicleSpeedTooLow", 137>>,
       <<"VersionNotSupported", 61>>,
       <<"VoltageTooHigh", 146>>,
       <<"VoltageTooLow", 147>>,
       <<"WrongBlockSequenceCounter", 115>>
    >>

PositiveResponse == 0

\* the marker byte of a negative response
NegativeMarker == 127

\* the first member whose value is given_id, 0 if there is none
MemberIndex(given_id) ==
    LET hits == {i \in 1..Len(CodeMembers) : CodeMembers[i][2] = given_id}
    IN  IF hits = {} THEN 0 ELSE CHOOSE i \in hits : \A j \in hits : i <= j

get_name(given_id) ==
    IF given_id = None THEN ""
    ELSE IF MemberIndex(given_id) # 0 THEN CodeMembers[MemberIndex(given_id)][1]
    ELSE ToString(given_id)

\* a classification by which every code but None and PositiveResponse is negative
is_negative_AnyNonZero(given_id) ==
    given_id \notin {None, PositiveResponse}

is_negative(given_id) ==
    IF given_id \in {None, PositiveResponse} THEN FALSE
    ELSE MemberIndex(given_id) # 0

-----------------------------------------------------------------------------
(* Response *)

ReasonNotInitialized == "Object not initialized"
ReasonUnknownService == "Payload first byte is not a know service."
ReasonIncomplete == "Incomplete invalid response code (7Fxx)"
ReasonTooShort == "Payload must be at least 2 bytes long (service and response)"

NoObj == [kind |-> "None"]

Raise(exc) == [raised |-> exc, obj |-> NoObj]
Return(o) == [raised |-> "", obj |-> o]

\* Response.__init__; a service instance and its class are not told apart
Response_init(service, code, data) ==
    LET base == [kind |-> "Response", service |-> service, positive |-> FALSE,
                 code |-> None, code_name |-> "", valid |-> FALSE,
                 invalid_reason |-> ReasonNotInitialized, data |-> data]
        coded == IF code = None THEN base
                 ELSE [base EXCEPT !.code = code, !.code_name = get_name(code),
                                   !.positive = ~is_negative(code)]
        done == IF coded.service # ServiceNone /\ coded.code # None
                THEN [coded EXCEPT !.valid = TRUE, !.invalid_reason = ""]
                ELSE coded
    IN  IF service = ServiceOther THEN Raise("ValueError")
        ELSE IF data.t # "None" /\ service # ServiceNone /\ ~has_response_data(service)
             THEN Raise("ValueError")
        ELSE IF data.t \notin {"None", "bytes"} THEN Raise("ValueError")
        ELSE IF code # None /\ ~IsInt(code) THEN Raise("ValueError")
        ELSE IF code # None /\ (code < 0 \/ code > 255) THEN Raise("ValueError")
        ELSE Return(done)

\* Response.get_payload: [raised, bytes]
Response_get_payload(r) ==
    IF r.service = ServiceNone THEN [raised |-> "TypeError", bytes |-> <<>>]
    ELSE IF ~IsInt(r.code) THEN [raised |-> "ValueError", bytes |-> <<>>]
    ELSE LET head == PackB(response_id(r.service)).bytes
             neg == IF ~r.positive
                    THEN IF PackB(r.code).raised # "" THEN PackB(r.code)
                         ELSE [raised |-> "", bytes |-> <<NegativeMarker>> \o PackB(r.code).bytes]
                    ELSE [raised |-> "", bytes |-> <<>>]
             tail == IF r.data.t # "None" /\ has_response_data(r.service)
                     THEN r.data.v ELSE <<>>
         IN  IF neg.raised # "" THEN [raised |-> neg.raised, bytes |-> <<>>]
             ELSE IF r.data.t = "str" /\ has_response_data(r.service)
                  THEN [raised |-> "TypeError", bytes |-> <<>>]
             ELSE [raised |-> "", bytes |-> head \o neg.bytes \o tail]

\* payload[i], i counted from 0: IndexError past the end
Item(payload, i) ==
    IF i < Len(payload) THEN [raised |-> "", val |-> payload[i + 1]]
    ELSE [raised |-> "IndexError", val |-> None]

\* the fields a positive response gets (lines 325-328 and 347-350)
PositiveOf(r) ==
    [r EXCEPT !.valid = TRUE, !.code = PositiveResponse,
              !.code_name = get_name(PositiveResponse), !.positive = TRUE]

\* a data slice that starts one byte late
WithData_OneByteLate(r, payload, data_start) ==
    IF Len(payload) > data_start + 1
    THEN [r EXCEPT !.data = Bytes(SliceFrom(payload, data_start + 1))]
    ELSE r

\* response.data = payload[data_start:] when the payload is long enough
WithData(r, payload, data_start) ==
    IF Len(payload) > data_start
    THEN [r EXCEPT !.data = Bytes(SliceFrom(payload, data_start))]
    ELSE r

\* the negative branch reading payload[2] without testing the length
NegativeOf_NoLengthTest(r, payload) ==
    IF Item(payload, 2).raised # "" THEN Raise(Item(payload, 2).raised)
    ELSE Return([r EXCEPT !.positive = FALSE, !.code = Item(payload, 2).val,
                          !.code_name = get_name(Item(payload, 2).val),
                          !.valid = TRUE])

\* the branch payload[1] == 0x7F, before the data is taken
NegativeOf(r, payload) ==
    IF Len(payload) >= 3
    THEN IF Item(payload, 2).raised # "" THEN Raise(Item(payload, 2).raised)
         ELSE Return([r EXCEPT !.positive = FALSE, !.code = Item(payload, 2).val,
                               !.code_name = get_name(Item(payload, 2).val),
                               !.valid = TRUE])
    ELSE Return([r EXCEPT !.positive = FALSE, !.valid = FALSE,
                          !.invalid_reason = ReasonIncomplete])

\* Response.from_payload: [raised, obj]
Response_from_payload(payload) ==
    LET response == Response_init(ServiceNone, None, NoData).obj
        b0 == Item(payload, 0)
        b1 == Item(payload, 1)
        found == [response EXCEPT !.service = cls_from_response_id(b0.val)]
        neg == NegativeOf(found, payload)
    IN  IF Len(payload) >= 1
        THEN IF b0.raised # "" THEN Raise(b0.raised)
             ELSE IF found.service = ServiceNone
             THEN Return([found EXCEPT !.valid = FALSE,
                                       !.invalid_reason = ReasonUnknownService])
             ELSE IF Len(payload) >= 2
             THEN IF b1.raised # "" THEN Raise(b1.raised)
                  ELSE IF b1.val # NegativeMarker
                  THEN Return(WithData(PositiveOf(found), payload, 1))
                  ELSE IF neg.raised # "" THEN neg
                  ELSE Return(WithData(neg.obj, payload, 3))
             ELSE IF has_response_data(found.service)
                  THEN Return([found EXCEPT !.valid = FALSE,
                                            !.invalid_reason = ReasonTooShort])
                  ELSE Return(PositiveOf(found))
        ELSE Return([response EXCEPT !.valid = FALSE, !.invalid_reason = ReasonTooShort])

-----------------------------------------------------------------------------
(* Request *)

\* the `service` argument of Request(): None, a service instance (sub is what its
\* subfunction_id() returns), a service class, or an object that is neither
ArgNone == [shape |-> "none", cls |-> ServiceNone, sub |-> None]
ArgInstance(s, k) == [shape |-> "instance", cls |-> s, sub |-> k]
ArgClass(s) == [shape |-> "class", cls |-> s, sub |-> None]
ArgOther == [shape |-> "other", cls |-> ServiceOther, sub |-> None]

\* Request.__init__
Request_init(service, subfunction, suppress_positive_response, data) ==
    LET mk(svc, sub) == [kind |-> "Request", service |-> svc, subfunction |-> sub,
                         suppress_positive_response |-> suppress_positive_response,
                         data |-> data]
        head == IF service.shape = "none" THEN Return(mk(ServiceNone, None))
                ELSE IF service.shape = "instance" THEN Return(mk(service.cls, service.sub))
                ELSE IF service.shape = "class"
                     THEN IF subfunction # None
                          THEN IF IsInt(subfunction) THEN Return(mk(service.cls, subfunction))
                               ELSE Raise("ValueError")
                          ELSE Return(mk(ServiceUnset, None))
                ELSE Raise("ValueError")
    IN  IF head.raised # "" THEN head
        ELSE IF data.t \notin {"None", "str"} THEN Raise("ValueError")
        ELSE head

\* Request.get_payload: [raised, bytes]
Request_get_payload(r) ==
    IF r.service = ServiceUnset THEN [raised |-> "AttributeError", bytes |-> <<>>]
    ELSE IF r.service = ServiceNone THEN [raised |-> "TypeError", bytes |-> <<>>]
    ELSE IF use_subfunction(r.service) /\ ~IsInt(r.subfunction)
         THEN [raised |-> "ValueError", bytes |-> <<>>]
    ELSE LET head == PackB(request_id(r.service))
             subfunction == IF r.suppress_positive_response
                            THEN Or80(r.subfunction) ELSE r.subfunction
             sub == IF use_subfunction(r.service) THEN PackB(subfunction)
                    ELSE [raised |-> "", bytes |-> <<>>]
         IN  IF sub.raised # "" THEN [raised |-> sub.raised, bytes |-> <<>>]
             ELSE IF r.data.t = "str" THEN [raised |-> "TypeError", bytes |-> <<>>]
             ELSE [raised |-> "", bytes |-> head.bytes \o sub.bytes \o r.data.v]

\* the subfunction byte of a request payload (lines 150-152)
SubfunctionOf(r, payload) ==
    IF Len(payload) >= 2
    THEN IF Item(payload, 1).raised # "" THEN Raise(Item(payload, 1).raised)
         ELSE Return([r EXCEPT !.subfunction = And7F(Item(payload, 1).val),
                               !.suppress_positive_response =
                                    (And80(Item(payload, 1).val) > 0)])
    ELSE Return(r)

\* Request.from_payload: [raised, obj]
Request_from_payload(payload) ==
    LET req == Request_init(ArgNone, None, FALSE, NoData).obj
        b0 == Item(payload, 0)
        found == [req EXCEPT !.service = cls_from_request_id(b0.val)]
        offset == IF use_subfunction(found.service) THEN 1 ELSE 0
        subbed == IF use_subfunction(found.service) THEN SubfunctionOf(found, payload)
                  ELSE Return(found)
    IN  IF Len(payload) >= 1
        THEN IF b0.raised # "" THEN Raise(b0.raised)
             ELSE IF found.service # ServiceNone
             THEN IF subbed.raised # "" THEN subbed
                  ELSE IF Len(payload) > offset + 1
                  THEN Return([subbed.obj EXCEPT
                                  !.data = Bytes(SliceFrom(payload, offset + 1))])
                  ELSE subbed
             ELSE Return(found)
        ELSE Return(req)

-----------------------------------------------------------------------------
(* Inputs of the framers *)

\* byte values of the data arguments
DataBytes == {1, 127}

\* byte values a received frame is made of: an unregistered code (0x01), a
\* request ID that is no response ID (0x22), a registered code (0x31), the
\* response ID of a service with response data (0x62) and of one without
\* (0x7E, also a registered code), and the marker 0x7F
FrameBytes == {1, 34, 49, 98, 126, 127}

\* subfunction arguments: None, no int, and integers around the byte range
SubArgs == {None, NotAnInt, -1, 0, 1, 127, 128, 255, 256}

\* code arguments: None, no int, every byte and the integers next to the bytes
CodeArgs == {None, NotAnInt, -1, 256} \cup 0..255

ServiceArgs ==
    {ArgNone, ArgOther} \cup {ArgClass(s) : s \in Services}
        \cup {ArgInstance(s, k) : s \in Services, k \in {None, 1}}

DataArgs == {NoData} \cup {Str(s) : s \in SeqsUpTo(DataBytes, MaxDataLen)}
                     \cup {Bytes(s) : s \in SeqsUpTo(DataBytes, MaxDataLen)}

NoWire == [present |-> FALSE, bytes |-> <<>>]
Wire(b) == [present |-> TRUE, bytes |-> b]

-----------------------------------------------------------------------------
(* The framers as operations on the object and the payload in hand *)

\* what the caller holds: nothing, or an object or payload being worked on
InHand == IF obj = NoObj /\ ~wire.present THEN "nothing" ELSE "something"

NewRequest ==
    /\ InHand = "nothing"
    /\ \E service \in ServiceArgs, subfunction \in SubArgs, spr \in BOOLEAN,
          data \in DataArgs :
        LET res == Request_init(service, subfunction, spr, data)
        IN  /\ obj' = res.obj
            /\ orig' = NoObj
            /\ wire' = NoWire
            /\ last' = [op |-> "Request", raised |-> res.raised]
            /\ UNCHANGED conn_vars

NewResponse ==
    /\ InHand = "nothing"
    /\ \E service \in Services \cup {ServiceNone, ServiceOther}, code \in CodeArgs,
          data \in DataArgs :
        LET res == Response_init(service, code, data)
        IN  /\ obj' = res.obj
            /\ orig' = NoObj
            /\ wire' = NoWire
            /\ last' = [op |-> "Response", raised |-> res.raised]
            /\ UNCHANGED conn_vars

RequestGetPayload ==
    /\ obj.kind = "Request"
    /\ LET res == Request_get_payload(obj)
       IN  /\ wire' = IF res.raised = "" THEN Wire(res.bytes) ELSE NoWire
           /\ last' = [op |-> "Request.get_payload", raised |-> res.raised]
    /\ orig' = obj
    /\ UNCHANGED <<obj, conn_vars>>

ResponseGetPayload ==
    /\ obj.kind = "Response"
    /\ LET res == Response_get_payload(obj)
       IN  /\ wire' = IF res.raised = "" THEN Wire(res.bytes) ELSE NoWire
           /\ last' = [op |-> "Response.get_payload", raised |-> res.raised]
    /\ orig' = obj
    /\ UNCHANGED <<obj, conn_vars>>

\* the caller asks Response.Code.is_negative about a code; the answer is the
\* value in hand
CodeIsNegative ==
    /\ InHand = "nothing"
    /\ \E given_id \in CodeArgs :
        /\ obj' = [kind |-> "bool", given_id |-> given_id,
                   value |-> is_negative(given_id)]
        /\ orig' = NoObj
        /\ wire' = NoWire
        /\ last' = [op |-> "Code.is_negative", raised |-> ""]
        /\ UNCHANGED conn_vars

\* a frame of arbitrary content is handed over by the transport
ReceivePayload ==
    /\ InHand = "nothing"
    /\ \E p \in SeqsUpTo(FrameBytes, MaxPayloadLen) :
        /\ wire' = Wire(p)
        /\ obj' = NoObj
        /\ orig' = NoObj
        /\ last' = [op |-> "recv", raised |-> ""]
        /\ UNCHANGED conn_vars

RequestFromPayload ==
    /\ wire.present
    /\ orig.kind # "Response"
    /\ obj' = Request_from_payload(wire.bytes).obj
    /\ last' = [op |-> "Request.from_payload",
                raised |-> Request_from_payload(wire.bytes).raised]
    /\ UNCHANGED <<orig, wire, conn_vars>>

ResponseFromPayload ==
    /\ wire.present
    /\ orig.kind # "Request"
    /\ obj' = Response_from_payload(wire.bytes).obj
    /\ last' = [op |-> "Response.from_payload",
                raised |-> Response_from_payload(wire.bytes).raised]
    /\ UNCHANGED <<orig, wire, conn_vars>>

\* the caller drops the object and the payload in hand
Discard ==
    /\ InHand = "something"
    /\ obj' = NoObj
    /\ orig' = NoObj
    /\ wire' = NoWire
    /\ last' = [op |-> "", raised |-> ""]
    /\ UNCHANGED conn_vars

-----------------------------------------------------------------------------
(* Specification of the framers: objects are built, serialised and parsed *)

NoResult == [op |-> "", outcome |-> "", frame |-> "None", exception |-> FALSE]

\* no wait_frame in progress (the defaults of line 68)
NoCallArg == [exception |-> FALSE, timeout |-> 2]

\* nothing in hand; in this specification the connection is never constructed
FramerInit ==
    /\ obj = NoObj
    /\ orig = NoObj
    /\ wire = NoWire
    /\ last = [op |-> "", raised |-> ""]
    /\ opened = FALSE
    /\ exit_requested = FALSE
    /\ rxqueue = <<>>
    /\ rxthread = "initial"
    /\ rxpc = "idle"
    /\ bound = FALSE
    /\ socket_defined = FALSE
    /\ topsock_defined = FALSE
    /\ callpc = "idle"
    /\ callarg = NoCallArg
    /\ scope = FALSE
    /\ result = NoResult
    /\ recvlog = <<>>
    /\ delivered = <<>>
    /\ drained = FALSE
    /\ taken = <<>>
    /\ rxerror = FALSE
    /\ history = ""

FramerNext ==
    \/ NewRequest
    \/ NewResponse
    \/ CodeIsNegative
    \/ RequestGetPayload
    \/ ResponseGetPayload
    \/ ReceivePayload
    \/ RequestFromPayload
    \/ ResponseFromPayload
    \/ Discard

SpecFramer == FramerInit /\ [][FramerNext]_vars

-----------------------------------------------------------------------------
(* Properties of the framers *)

\* the payload that the last call parsed or produced
Payload == wire.bytes

ParsedResponse == last.op = "Response.from_payload"

KnownResponseId(p) == Len(p) >= 1 /\ cls_from_response_id(p[1]) # ServiceNone

DataFrom(p, start) == IF Len(p) > start THEN Bytes(SliceFrom(p, start)) ELSE NoData

\* C1, as stated: Response.from_payload classifies every payload as (1) empty, or
\* 1 byte that is no response ID: invalid, "unknown service"; (2) 1 byte of a
\* service without response data: valid positive response; (3) 1 byte of a
\* service with response data: invalid, "too short"; (4) 2 bytes or more with
\* byte 1 # 0x7F: positive, data from byte 1; (5) 2 bytes or more with byte 1 =
\* 0x7F: negative, code = byte 2 and data from byte 3, or invalid "incomplete"
\* when there is no byte 2.
C1_AsStated ==
    ParsedResponse =>
        LET p == Payload
            r == obj
        IN  /\ last.raised = ""
            /\ (Len(p) = 0 \/ (Len(p) = 1 /\ ~KnownResponseId(p)))
                  => ~r.valid /\ r.invalid_reason = ReasonUnknownService
            /\ (Len(p) = 1 /\ KnownResponseId(p) /\ ~has_response_data(r.service))
                  => r.valid /\ r.positive /\ r.code = PositiveResponse
            /\ (Len(p) = 1 /\ KnownResponseId(p) /\ has_response_data(r.service))
                  => ~r.valid /\ r.invalid_reason = ReasonTooShort
            /\ (Len(p) >= 2 /\ p[2] # NegativeMarker)
                  => r.positive /\ r.data = DataFrom(p, 1)
            /\ (Len(p) >= 3 /\ p[2] = NegativeMarker)
                  => ~r.positive /\ r.code = p[3] /\ r.data = DataFrom(p, 3)
            /\ (Len(p) = 2 /\ p[2] = NegativeMarker)
                  => ~r.valid /\ r.invalid_reason = ReasonIncomplete

\* C1, amended: an empty payload is invalid with the "at least 2 bytes" reason; a
\* payload of any length whose byte 0 is no response ID is invalid, "unknown
\* service"; cases (2) to (5) are those of a payload whose byte 0 is a response ID.
C1_Classification ==
    ParsedResponse =>
        LET p == Payload
            r == obj
        IN  /\ last.raised = ""
            /\ Len(p) = 0 => ~r.valid /\ r.invalid_reason = ReasonTooShort
            /\ (Len(p) >= 1 /\ ~KnownResponseId(p))
                  => ~r.valid /\ r.invalid_reason = ReasonUnknownService
            /\ KnownResponseId(p) => r.service = cls_from_response_id(p[1])
            /\ (Len(p) = 1 /\ KnownResponseId(p) /\ ~has_response_data(r.service))
                  => r.valid /\ r.positive /\ r.code = PositiveResponse
            /\ (Len(p) = 1 /\ KnownResponseId(p) /\ has_response_data(r.service))
                  => ~r.valid /\ r.invalid_reason = ReasonTooShort
            /\ (Len(p) >= 2 /\ KnownResponseId(p) /\ p[2] # NegativeMarker)
                  => /\ r.valid /\ r.positive /\ r.code = PositiveResponse
                     /\ r.data = DataFrom(p, 1)
            /\ (Len(p) >= 3 /\ KnownResponseId(p) /\ p[2] = NegativeMarker)
                  => /\ r.valid /\ ~r.positive /\ r.code = p[3]
                     /\ r.data = DataFrom(p, 3)
            /\ (Len(p) = 2 /\ KnownResponseId(p) /\ p[2] = NegativeMarker)
                  => ~r.valid /\ ~r.positive /\ r.invalid_reason = ReasonIncomplete

\* a negative response with data after its code has been parsed
C1_Witness ==
    /\ ParsedResponse
    /\ Len(Payload) >= 4
    /\ Payload[2] = NegativeMarker
    /\ obj.valid /\ ~obj.positive /\ obj.data = DataFrom(Payload, 3)

\* the payloads section 4.2 calls malformed
Malformed(p) ==
    \/ Len(p) = 0
    \/ ~KnownResponseId(p)
    \/ Len(p) = 1 /\ has_response_data(cls_from_response_id(p[1]))
    \/ Len(p) = 2 /\ p[2] = NegativeMarker

\* C2: Response.from_payload raises no exception on any byte sequence; a
\* malformed payload gives an object with valid = false and a non-empty
\* invalid_reason.
C2_NeverRaises ==
    ParsedResponse =>
        /\ last.raised = ""
        /\ obj.kind = "Response"
        /\ Malformed(Payload) => ~obj.valid
        /\ ~obj.valid => obj.invalid_reason # ""

\* the truncated negative response <<response ID, 0x7F>> has been parsed
C2_Witness ==
    /\ ParsedResponse
    /\ Len(Payload) = 2
    /\ KnownResponseId(Payload)
    /\ Payload[2] = NegativeMarker
    /\ ~obj.valid

\* a Request of a registered service, with a byte as subfunction when the
\* service uses one
WellFormedRequest(r) ==
    /\ r.kind = "Request"
    /\ r.service \in Services
    /\ use_subfunction(r.service) => r.subfunction \in 0..255
    /\ r.data.t \in {"None", "str", "bytes"}

\* C3: for every well-formed Request r, Request.from_payload(r.get_payload()) has
\* the service, subfunction, suppress_positive_response and data of r.
C3_RequestRoundTrip ==
    (WellFormedRequest(orig) /\ last.op \in {"Request.get_payload", "Request.from_payload"})
        => /\ last.raised = ""
           /\ last.op = "Request.from_payload"
                => /\ obj.service = orig.service
                   /\ use_subfunction(orig.service) => obj.subfunction = orig.subfunction
                   /\ obj.suppress_positive_response = orig.suppress_positive_response
                   /\ obj.data.v = orig.data.v
                   /\ (obj.data.t = "None") = (orig.data.t = "None")

\* a Response of a registered service with a byte as code (the constructor admits
\* data only for a service that declares response data)
WellFormedResponse(r) ==
    /\ r.kind = "Response"
    /\ r.service \in Services
    /\ r.code \in 0..255
    /\ r.valid
    /\ r.data.t # "None" => has_response_data(r.service)

\* C4: for every well-formed Response r, Response.from_payload(r.get_payload())
\* has the service, positive flag, code and data of r.
C4_ResponseRoundTrip ==
    (WellFormedResponse(orig) /\ last.op \in {"Response.get_payload", "Response.from_payload"})
        => /\ last.raised = ""
           /\ last.op = "Response.from_payload"
                => /\ obj.service = orig.service
                   /\ obj.positive = orig.positive
                   /\ obj.code = orig.code
                   /\ obj.data = orig.data

\* C10: the payload of a negative Response is exactly the response ID, 0x7F and
\* the code, whatever data the Response holds.
C10_NegativePayload ==
    (last.op = "Response.get_payload" /\ last.raised = "" /\ ~orig.positive)
        => Payload = <<response_id(orig.service), NegativeMarker, orig.code>>

\* a Request that get_payload is to refuse: no registered service, or a service
\* with a subfunction and a subfunction that is no byte
Unconfigured(r) ==
    \/ r.service \notin Services
    \/ use_subfunction(r.service) /\ r.subfunction \notin 0..255

\* the subfunction byte of the wire layout: the subfunction, with bit 7 set when
\* suppress_positive_response is set
SubfunctionByte(r) ==
    IF r.suppress_positive_response THEN Or80(r.subfunction) ELSE r.subfunction

\* C11: Request.get_payload fails when the service is absent or not registered,
\* or when the service uses a subfunction and the subfunction is no byte; in
\* every other case it returns the request ID, then (only for a service with a
\* subfunction) the subfunction byte with bit 7 set exactly when
\* suppress_positive_response is set, then the data bytes and nothing else.
C11_RequestPayload ==
    (last.op = "Request.get_payload") =>
        IF Unconfigured(orig)
        THEN last.raised # "" /\ ~wire.present
        ELSE /\ last.raised = ""
             /\ wire.present
             /\ Payload = <<request_id(orig.service)>>
                            \o (IF use_subfunction(orig.service)
                                THEN <<SubfunctionByte(orig)>> ELSE <<>>)
                            \o orig.data.v

\* C12: every Response, built by the constructor or produced by
\* Response.from_payload, holds data only if its service declares response data.
C12_DataOnlyIfDeclared ==
    (obj.kind = "Response" /\ last.op \in {"Response", "Response.from_payload"}
                           /\ last.raised = "" /\ obj.data.t # "None")
        => obj.service \in Services /\ has_response_data(obj.service)

\* C13: Response.from_payload(7F 22 31) is a negative Response with code 0x31
\* (RequestOutOfRange) and positive = false.
C13_NegativeScenario ==
    (ParsedResponse /\ Payload = <<127, 34, 49>>)
        => /\ last.raised = ""
           /\ ~obj.positive
           /\ obj.code = 49
           /\ obj.code_name = "RequestOutOfRange"

\* the values of the named constants of Response.Code
RegisteredCodes == {CodeMembers[i][2] : i \in 1..Len(CodeMembers)}

\* the classification of section 4.3: negative are the registered constants
\* other than PositiveResponse
NegativeCode(c) == c # None /\ c # PositiveResponse /\ c \in RegisteredCodes

\* C14, as stated: is_negative is false for the absent code and for
\* PositiveResponse, true for every other registered constant and false for
\* every value without a registered constant; a Response constructed with code
\* c, the absent code included, is positive exactly when is_negative(c) is false.
C14_AsStated ==
    /\ last.op = "Code.is_negative" => obj.value = NegativeCode(obj.given_id)
    /\ (last.op = "Response" /\ last.raised = "")
          => obj.positive = ~NegativeCode(obj.code)

\* C14, amended: is_negative is as stated; a Response constructed with a code c
\* in 0..255 is positive exactly when is_negative(c) is false, and a Response
\* constructed without a code is not positive.
C14_IsNegative ==
    /\ last.op = "Code.is_negative" => obj.value = NegativeCode(obj.given_id)
    /\ (last.op = "Response" /\ last.raised = "")
          => IF obj.code = None THEN ~obj.positive
             ELSE obj.code \in 0..255 /\ obj.positive = ~NegativeCode(obj.code)

\* a Response has been constructed with a code that has no registered constant,
\* and is positive
C14_Witness ==
    /\ last.op = "Response"
    /\ last.raised = ""
    /\ obj.code = 1
    /\ obj.positive

-----------------------------------------------------------------------------
(* Dtc *)

\* the eight status flags, testFailed first, with the mask of each
StatusFlags ==
    << <<"testFailed", 1>>, <<"testFailedThisOperationCycle", 2>>,
       <<"pending", 4>>, <<"confirmed", 8>>,
       <<"testNotCompletedSinceLastClear", 16>>,
       <<"testFailedSinceLastClear", 32>>,
       <<"testNotCompletedThisOperationCycle", 64>>,
       <<"warningIndicatorRequested", 128>> >>

\* byte & mask > 0, for a mask that is a power of two
BitSet(byte, mask) == (byte \div mask) % 2 = 1

\* Dtc.__init__, as far as it gets when the name `dtcid` resolves
Dtc_init(dtcid) ==
    [kind |-> "Dtc", id |-> dtcid,
     testFailed |-> FALSE, testFailedThisOperationCycle |-> FALSE,
     pending |-> FALSE, confirmed |-> FALSE,
     testNotCompletedSinceLastClear |-> FALSE,
     testFailedSinceLastClear |-> FALSE,
     testNotCompletedThisOperationCycle |-> FALSE,
     warningIndicatorRequested |-> FALSE]

\* the byte the status getter builds in its local variable `byte`
StatusByte(d) ==
    (IF d.testFailed THEN 1 ELSE 0)
    + (IF d.testFailedThisOperationCycle THEN 2 ELSE 0)
    + (IF d.pending THEN 4 ELSE 0)
    + (IF d.confirmed THEN 8 ELSE 0)
    + (IF d.testNotCompletedSinceLastClear THEN 16 ELSE 0)
    + (IF d.testFailedSinceLastClear THEN 32 ELSE 0)
    + (IF d.testNotCompletedThisOperationCycle THEN 64 ELSE 0)
    + (IF d.warningIndicatorRequested THEN 128 ELSE 0)

\* the status getter: the function ends without a return statement
Dtc_status(d) == None

\* the status setter
Dtc_set_status(d, byte) ==
    [d EXCEPT !.testFailed = BitSet(byte, 1),
              !.testFailedThisOperationCycle = BitSet(byte, 2),
              !.pending = BitSet(byte, 4),
              !.confirmed = BitSet(byte, 8),
              !.testNotCompletedSinceLastClear = BitSet(byte, 16),
              !.testFailedSinceLastClear = BitSet(byte, 32),
              !.testNotCompletedThisOperationCycle = BitSet(byte, 64),
              !.warningIndicatorRequested = BitSet(byte, 128)]

\* the status bytes written
StatusBytes == 0..255

\* Dtc(dtc): line 416 reads the name `dtcid`, which is no parameter; the
\* constructor raises NameError unless a global of that name exists
NewDtc ==
    /\ InHand = "nothing"
    /\ \E dtcid_defined \in BOOLEAN :
        /\ obj' = IF dtcid_defined THEN Dtc_init(1) ELSE NoObj
        /\ last' = [op |-> "Dtc", raised |-> IF dtcid_defined THEN "" ELSE "NameError",
                    value |-> None]
    /\ orig' = NoObj
    /\ wire' = NoWire
    /\ UNCHANGED conn_vars

\* dtc.status = byte
DtcSetStatus ==
    /\ obj.kind = "Dtc"
    /\ \E byte \in StatusBytes :
        /\ obj' = Dtc_set_status(obj, byte)
        /\ last' = [op |-> "Dtc.status.setter", raised |-> "", value |-> byte]
    /\ UNCHANGED <<orig, wire, conn_vars>>

\* dtc.status
DtcGetStatus ==
    /\ obj.kind = "Dtc"
    /\ last' = [op |-> "Dtc.status", raised |-> "", value |-> Dtc_status(obj)]
    /\ UNCHANGED <<obj, orig, wire, conn_vars>>

-----------------------------------------------------------------------------
(* DidCodec *)

\* the classes given to from_config: DidCodec, a subclass of it, and a class
\* that is no codec
CodecClasses == {"DidCodec", "MyCodec"}
OtherClass == "object"

\* the format strings given as packstr, and the packstr None of a codec built
\* without one
FormatStrings == {"B", ">H"}
PackstrNone == "None"

CodecInstance(c, packstr) == [kind |-> "DidCodec", cls |-> c, packstr |-> packstr]
CodecClass(c) == [kind |-> "class", cls |-> c]
FormatString(f) == [kind |-> "str", v |-> f]
AnInt == [kind |-> "int"]

\* the values of didconfig: the three shapes from_config knows, and None, an
\* int and a class that is no codec
DidConfigs ==
    {CodecInstance(c, f) : c \in CodecClasses, f \in FormatStrings \cup {PackstrNone}}
        \cup {CodecClass(c) : c \in CodecClasses \cup {OtherClass}}
        \cup {FormatString(f) : f \in FormatStrings}
        \cup {NoObj, AnInt}

\* DidCodec.from_config, called on DidCodec itself; after the three tests the
\* function ends, which returns None
DidCodec_from_config(didconfig) ==
    IF didconfig.kind = "DidCodec" THEN Return(didconfig)
    ELSE IF didconfig.kind = "class" /\ didconfig.cls \in CodecClasses
         THEN Return(CodecInstance(didconfig.cls, PackstrNone))
    ELSE IF didconfig.kind = "str" THEN Return(CodecInstance("DidCodec", didconfig.v))
    ELSE Return(NoObj)

\* DidCodec.from_config(didconfig); the argument is kept in orig
FromConfig ==
    /\ InHand = "nothing"
    /\ \E didconfig \in DidConfigs :
        /\ obj' = DidCodec_from_config(didconfig).obj
        /\ orig' = didconfig
        /\ last' = [op |-> "DidCodec.from_config",
                    raised |-> DidCodec_from_config(didconfig).raised, value |-> None]
    /\ wire' = NoWire
    /\ UNCHANGED conn_vars

-----------------------------------------------------------------------------
(* Specification of the value classes: trouble codes and codecs are built and
   used *)

ValuesNext ==
    \/ NewDtc
    \/ DtcSetStatus
    \/ DtcGetStatus
    \/ FromConfig
    \/ Discard

SpecValues == FramerInit /\ [][ValuesNext]_vars

-----------------------------------------------------------------------------
(* Properties of the value classes *)

\* C15: for every byte b, writing b to a Dtc's status sets each of the eight
\* flags to its bit of b (bit 0 = testFailed ... bit 7 =
\* warningIndicatorRequested), whatever the flags were, and reading status
\* returns the byte packed from the flags, so b again.
C15_StatusBijection ==
    /\ last.op = "Dtc.status.setter"
          => /\ \A i \in 1..Len(StatusFlags) :
                   obj[StatusFlags[i][1]] = BitSet(last.value, StatusFlags[i][2])
             /\ StatusByte(obj) = last.value
    /\ last.op = "Dtc.status" => last.value = StatusByte(obj)

\* C16: DidCodec.from_config returns a codec instance unchanged, instantiates a
\* codec class with no arguments and wraps a format string into a codec of
\* that layout; for a value of any other shape it raises and returns nothing.
C16_FromConfig ==
    last.op = "DidCodec.from_config" =>
        /\ orig.kind = "DidCodec" => last.raised = "" /\ obj = orig
        /\ (orig.kind = "class" /\ orig.cls \in CodecClasses)
              => last.raised = "" /\ obj = CodecInstance(orig.cls, PackstrNone)
        /\ orig.kind = "str"
              => last.raised = "" /\ obj.kind = "DidCodec" /\ obj.packstr = orig.v
        /\ (orig.kind \notin {"DidCodec", "str"}
                /\ ~(orig.kind = "class" /\ orig.cls \in CodecClasses))
              => last.raised # ""

-----------------------------------------------------------------------------
(* Connection *)

\* the values tpsock.recv() returns as frames
Frames == {"f1", "f2"}

Result(op, outcome) == [op |-> op, outcome |-> outcome, frame |-> "None",
                        exception |-> FALSE]

\* the calls of open() and close() so far, after one more
After(h, call) ==
    IF h = "" /\ call = "open" THEN "o"
    ELSE IF h = "o" /\ call = "close" THEN "oc"
    ELSE IF h = "oc" /\ call = "open" THEN "oco"
    ELSE "other"

\* the outcome of Connection.__init__ (lines 16-24). Line 24 reads the global
\* name `topsock` (the parameter is `tpsock`): when that name does not resolve
\* the constructor raises NameError and there is no Connection to call; when it
\* does, the object is as lines 19-23 set it. Whether `topsock` and the name
\* `socket` of line 49 resolve is decided by what line 8 imports. The framers
\* are not used.
ConnInit ==
    /\ obj = NoObj
    /\ orig = NoObj
    /\ wire = NoWire
    /\ last = [op |-> "", raised |-> ""]
    /\ opened = FALSE
    /\ exit_requested = FALSE
    /\ rxqueue = <<>>
    /\ rxthread = "initial"
    /\ rxpc = "idle"
    /\ bound = FALSE
    /\ socket_defined \in BOOLEAN
    /\ topsock_defined \in BOOLEAN
    /\ callpc = "idle"
    /\ callarg = NoCallArg
    /\ scope = FALSE
    /\ result = Result("__init__", IF topsock_defined THEN "returned"
                                   ELSE "NameError")
    /\ recvlog = <<>>
    /\ delivered = <<>>
    /\ drained = FALSE
    /\ taken = <<>>
    /\ rxerror = FALSE
    /\ history = ""

\* the caller holds a Connection and is between two calls
CanCall == topsock_defined /\ callpc = "idle"

\* threading.Thread.start(): a thread object is started at most once
ThreadStart ==
    IF rxthread = "initial"
    THEN [raised |-> "", rxthread |-> "started", rxpc |-> "test"]
    ELSE [raised |-> "RuntimeError", rxthread |-> rxthread, rxpc |-> rxpc]

\* Connection.open, line 28: the call, and the socket is bound
OpenBind ==
    /\ CanCall
    /\ bound' = TRUE
    /\ callpc' = "open_clear"
    /\ history' = After(history, "open")
    /\ UNCHANGED <<opened, exit_requested, rxqueue, rxthread, rxpc, socket_defined,
                   topsock_defined, callarg, scope, result, recvlog, delivered,
                   drained, taken, rxerror, framer_vars>>

\* Connection.open, line 29
OpenClear ==
    /\ callpc = "open_clear"
    /\ exit_requested' = FALSE
    /\ rxerror' = FALSE
    /\ callpc' = "open_start"
    /\ UNCHANGED <<opened, rxqueue, rxthread, rxpc, bound, socket_defined,
                   topsock_defined, callarg, scope, result, recvlog, delivered,
                   drained, taken, history, framer_vars>>

\* Connection.open, line 30: start() returns once the receiver thread runs,
\* or raises and ends the call
OpenStart ==
    /\ callpc = "open_start"
    /\ rxthread' = ThreadStart.rxthread
    /\ rxpc' = ThreadStart.rxpc
    /\ IF ThreadStart.raised = ""
       THEN /\ callpc' = "open_opened"
            /\ UNCHANGED result
       ELSE /\ callpc' = "idle"
            /\ result' = Result("open", ThreadStart.raised)
    /\ UNCHANGED <<opened, exit_requested, rxqueue, bound, socket_defined,
                   topsock_defined, callarg, scope, recvlog, delivered, drained,
                   taken, rxerror, history, framer_vars>>

\* Connection.open, lines 31-32
OpenReturn ==
    /\ callpc = "open_opened"
    /\ opened' = TRUE
    /\ callpc' = "idle"
    /\ result' = Result("open", "returned")
    /\ UNCHANGED <<exit_requested, rxqueue, rxthread, rxpc, bound, socket_defined,
                   topsock_defined, callarg, scope, recvlog, delivered, drained,
                   taken, rxerror, history, framer_vars>>

\* Connection.close, line 56: the call, and the receiver is asked to stop
CloseRequest ==
    /\ CanCall
    /\ exit_requested' = TRUE
    /\ callpc' = "close_socket"
    /\ history' = After(history, "close")
    /\ UNCHANGED <<opened, rxqueue, rxthread, rxpc, bound, socket_defined,
                   topsock_defined, callarg, scope, result, recvlog, delivered,
                   drained, taken, rxerror, framer_vars>>

\* Connection.close, line 57
CloseSocket ==
    /\ callpc = "close_socket"
    /\ bound' = FALSE
    /\ callpc' = "close_opened"
    /\ UNCHANGED <<opened, exit_requested, rxqueue, rxthread, rxpc, socket_defined,
                   topsock_defined, callarg, scope, result, recvlog, delivered,
                   drained, taken, rxerror, history, framer_vars>>

\* a close that also empties the queue
CloseReturn_ClearsQueue ==
    /\ callpc = "close_opened"
    /\ opened' = FALSE
    /\ rxqueue' = <<>>
    /\ callpc' = "idle"
    /\ result' = Result("close", "returned")
    /\ UNCHANGED <<exit_requested, rxthread, rxpc, bound, socket_defined,
                   topsock_defined, callarg, scope, recvlog, delivered, drained,
                   taken, rxerror, history, framer_vars>>

\* Connection.close, line 58, and the return
CloseReturn ==
    /\ callpc = "close_opened"
    /\ opened' = FALSE
    /\ callpc' = "idle"
    /\ result' = Result("close", "returned")
    /\ UNCHANGED <<exit_requested, rxqueue, rxthread, rxpc, bound, socket_defined,
                   topsock_defined, callarg, scope, recvlog, delivered, drained,
                   taken, rxerror, history, framer_vars>>

\* Connection.__enter__
Enter ==
    /\ CanCall
    /\ ~scope
    /\ scope' = TRUE
    /\ result' = Result("__enter__", "returned")
    /\ UNCHANGED <<opened, exit_requested, rxqueue, rxthread, rxpc, bound, socket_defined,
                   topsock_defined, callpc, callarg, recvlog, delivered, drained,
                   taken, rxerror, history, framer_vars>>

\* a scope exit that does not close the connection
ExitRequest_WithoutClose ==
    /\ CanCall
    /\ scope
    /\ scope' = FALSE
    /\ opened' = FALSE
    /\ result' = Result("__exit__", "returned")
    /\ UNCHANGED <<exit_requested, rxqueue, rxthread, rxpc, bound, socket_defined,
                   topsock_defined, callpc, callarg, recvlog, delivered, drained,
                   taken, rxerror, history, framer_vars>>

\* Connection.__exit__, on leaving the `with` block normally or by an exception:
\* line 38 calls close(), whose line 56 asks the receiver to stop
ExitRequest ==
    /\ CanCall
    /\ scope
    /\ exit_requested' = TRUE
    /\ callpc' = "exit_socket"
    /\ history' = After(history, "close")
    /\ UNCHANGED <<opened, rxqueue, rxthread, rxpc, bound, socket_defined,
                   topsock_defined, callarg, scope, result, recvlog, delivered,
                   drained, taken, rxerror, framer_vars>>

\* Connection.__exit__, in close(), line 57
ExitSocket ==
    /\ callpc = "exit_socket"
    /\ bound' = FALSE
    /\ callpc' = "exit_opened"
    /\ UNCHANGED <<opened, exit_requested, rxqueue, rxthread, rxpc, socket_defined,
                   topsock_defined, callarg, scope, result, recvlog, delivered,
                   drained, taken, rxerror, history, framer_vars>>

\* Connection.__exit__, in close(), line 58; __exit__ returns None, so an
\* exception that ended the block goes on, and the block is left
ExitReturn ==
    /\ callpc = "exit_opened"
    /\ opened' = FALSE
    /\ scope' = FALSE
    /\ callpc' = "idle"
    /\ \E by_exception \in BOOLEAN :
          result' = Result("__exit__", IF by_exception THEN "exception propagates"
                                       ELSE "returned")
    /\ UNCHANGED <<exit_requested, rxqueue, rxthread, rxpc, bound, socket_defined,
                   topsock_defined, callarg, recvlog, delivered, drained, taken,
                   rxerror, history, framer_vars>>

\* Connection.is_open
is_open == bound

IsOpen ==
    /\ CanCall
    /\ result' = Result("is_open", IF is_open THEN "True" ELSE "False")
    /\ UNCHANGED <<opened, exit_requested, rxqueue, rxthread, rxpc, bound, socket_defined,
                   topsock_defined,
                   callpc, callarg, scope, recvlog, delivered, drained, taken, rxerror,
                   history, framer_vars>>

\* the `timeout` arguments given to wait_frame: a negative number, a duration
\* and None (wait without limit)
Timeouts == {-1, 2, None}

\* Connection.wait_frame, lines 68-78: the test of opened; the raise of line 71
\* looks up the global name RuntimeException, bound or not by what line 8
\* imports (NameError if not); then rxqueue.get tests its timeout before it
\* looks at the queue (ValueError if negative) and the caller blocks in it
WaitFrameCall ==
    /\ CanCall
    /\ UNCHANGED <<opened, exit_requested, rxqueue, rxthread, rxpc, bound, socket_defined,
                   topsock_defined, scope, recvlog, delivered, drained, taken, rxerror,
                   history, framer_vars>>
    /\ \E exception \in BOOLEAN :
          IF ~opened
          THEN /\ UNCHANGED <<callpc, callarg>>
               /\ \E RuntimeException_defined \in BOOLEAN :
                     result' = [op |-> "wait_frame",
                                outcome |-> IF ~exception THEN "returned None"
                                            ELSE IF RuntimeException_defined
                                            THEN "raised RuntimeException"
                                            ELSE "raised NameError",
                                frame |-> "None", exception |-> exception]
          ELSE \E timeout \in Timeouts :
                  IF timeout # None /\ timeout < 0
                  THEN /\ UNCHANGED <<callpc, callarg>>
                       /\ result' = [op |-> "wait_frame",
                                     outcome |-> "raised ValueError",
                                     frame |-> "None", exception |-> exception]
                  ELSE /\ callpc' = "get"
                       /\ callarg' = [exception |-> exception, timeout |-> timeout]
                       /\ UNCHANGED result

\* a get that takes the newest frame
WaitFrameGet_Newest ==
    /\ callpc = "get"
    /\ rxqueue # <<>>
    /\ result' = [op |-> "wait_frame", outcome |-> "returned frame",
                  frame |-> rxqueue[Len(rxqueue)], exception |-> callarg.exception]
    /\ delivered' = Append(delivered, rxqueue[Len(rxqueue)])
    /\ taken' = Append(taken, "wait")
    /\ rxqueue' = SubSeq(rxqueue, 1, Len(rxqueue) - 1)
    /\ callpc' = "idle"
    /\ callarg' = NoCallArg
    /\ UNCHANGED <<opened, exit_requested, rxthread, rxpc, bound, socket_defined,
                   topsock_defined,
                   scope, recvlog, drained, rxerror, history, framer_vars>>

\* Connection.wait_frame, lines 78 and 86: rxqueue.get returns the oldest frame
WaitFrameGet ==
    /\ callpc = "get"
    /\ rxqueue # <<>>
    /\ result' = [op |-> "wait_frame", outcome |-> "returned frame",
                  frame |-> Head(rxqueue), exception |-> callarg.exception]
    /\ delivered' = Append(delivered, Head(rxqueue))
    /\ taken' = Append(taken, "wait")
    /\ rxqueue' = Tail(rxqueue)
    /\ callpc' = "idle"
    /\ callarg' = NoCallArg
    /\ UNCHANGED <<opened, exit_requested, rxthread, rxpc, bound, socket_defined,
                   topsock_defined,
                   scope, recvlog, drained, rxerror, history, framer_vars>>

\* Connection.wait_frame, lines 80-86: the queue stayed empty for the timeout
\* (a get without timeout waits on); the raise of line 84 looks up the global
\* name TimeoutException, bound or not by what line 8 imports
WaitFrameTimeout ==
    /\ callpc = "get"
    /\ rxqueue = <<>>
    /\ callarg.timeout # None
    /\ \E TimeoutException_defined \in BOOLEAN :
          result' = [op |-> "wait_frame",
                     outcome |-> IF ~callarg.exception THEN "returned None"
                                 ELSE IF TimeoutException_defined
                                 THEN "raised TimeoutException"
                                 ELSE "raised NameError",
                     frame |-> "None", exception |-> callarg.exception]
    /\ callpc' = "idle"
    /\ callarg' = NoCallArg
    /\ UNCHANGED <<opened, exit_requested, rxqueue, rxthread, rxpc, bound, socket_defined,
                   topsock_defined, scope, recvlog, delivered, drained, taken, rxerror,
                   history, framer_vars>>

\* Connection.empty_rxqueue: the call, then the loop test and the get in turn
EmptyCall ==
    /\ CanCall
    /\ callpc' = "empty_test"
    /\ drained' = TRUE
    /\ UNCHANGED <<opened, exit_requested, rxqueue, rxthread, rxpc, bound, socket_defined,
                   topsock_defined,
                   callarg, scope, result, recvlog, delivered, taken, rxerror, history,
                   framer_vars>>

\* a loop test that stops with one frame left
EmptyTest_StopsAtOne ==
    /\ callpc = "empty_test"
    /\ IF Len(rxqueue) <= 1
       THEN /\ callpc' = "idle"
            /\ result' = Result("empty_rxqueue", "returned")
       ELSE /\ callpc' = "empty_get"
            /\ UNCHANGED result
    /\ UNCHANGED <<opened, exit_requested, rxqueue, rxthread, rxpc, bound, socket_defined,
                   topsock_defined,
                   callarg, scope, recvlog, delivered, drained, taken, rxerror, history,
                   framer_vars>>

\* Connection.empty_rxqueue, line 89: the loop test
EmptyTest ==
    /\ callpc = "empty_test"
    /\ IF rxqueue = <<>>
       THEN /\ callpc' = "idle"
            /\ result' = Result("empty_rxqueue", "returned")
       ELSE /\ callpc' = "empty_get"
            /\ UNCHANGED result
    /\ UNCHANGED <<opened, exit_requested, rxqueue, rxthread, rxpc, bound, socket_defined,
                   topsock_defined,
                   callarg, scope, recvlog, delivered, drained, taken, rxerror, history,
                   framer_vars>>

\* Connection.empty_rxqueue, line 90: rxqueue.get() with no timeout
EmptyGet ==
    /\ callpc = "empty_get"
    /\ rxqueue # <<>>
    /\ rxqueue' = Tail(rxqueue)
    /\ taken' = Append(taken, "empty")
    /\ callpc' = "empty_test"
    /\ UNCHANGED <<opened, exit_requested, rxthread, rxpc, bound, socket_defined,
                   topsock_defined, callarg,
                   scope, result, recvlog, delivered, drained, rxerror, history,
                   framer_vars>>

\* rxthread_task, line 44: the loop test
RxTest ==
    /\ rxpc = "test"
    /\ rxpc' = IF exit_requested THEN "done" ELSE "recv"
    /\ UNCHANGED <<opened, exit_requested, rxqueue, rxthread, bound, socket_defined,
                   topsock_defined, callpc,
                   callarg, scope, result, recvlog, delivered, drained, taken, rxerror, history,
                   framer_vars>>

\* rxthread_task, lines 46-48: recv returns a frame, which is queued
RxRecvFrame ==
    /\ rxpc = "recv"
    /\ Len(recvlog) < MaxFrames
    /\ \E data \in Frames :
          /\ rxqueue' = Append(rxqueue, data)
          /\ recvlog' = Append(recvlog, data)
    /\ rxpc' = "test"
    /\ UNCHANGED <<opened, exit_requested, rxthread, bound, socket_defined,
                   topsock_defined, callpc, callarg,
                   scope, result, delivered, drained, taken, rxerror, history, framer_vars>>

\* rxthread_task, lines 46-47: recv returns None
RxRecvNone ==
    /\ rxpc = "recv"
    /\ rxpc' = "test"
    /\ UNCHANGED <<opened, exit_requested, rxqueue, rxthread, bound, socket_defined,
                   topsock_defined, callpc,
                   callarg, scope, result, recvlog, delivered, drained, taken, rxerror, history,
                   framer_vars>>

\* rxthread_task, lines 49-50: recv raises socket.timeout; when the name `socket`
\* does not resolve, the except clause raises NameError and the thread ends
RxRecvTimeout ==
    /\ rxpc = "recv"
    /\ rxpc' = IF socket_defined THEN "test" ELSE "done"
    /\ UNCHANGED <<opened, exit_requested, rxqueue, rxthread, bound, socket_defined,
                   topsock_defined, callpc,
                   callarg, scope, result, recvlog, delivered, drained, taken, rxerror, history,
                   framer_vars>>

\* rxthread_task, lines 51-52: recv raises another exception
RxRecvError ==
    /\ rxpc = "recv"
    /\ rxerror' = TRUE
    /\ IF socket_defined
       THEN exit_requested' = TRUE /\ rxpc' = "test"
       ELSE exit_requested' = exit_requested /\ rxpc' = "done"
    /\ UNCHANGED <<opened, rxqueue, rxthread, bound, socket_defined,
                   topsock_defined, callpc, callarg, scope,
                   result, recvlog, delivered, drained, taken, history, framer_vars>>

ConnNext ==
    \/ OpenBind
    \/ OpenClear
    \/ OpenStart
    \/ OpenReturn
    \/ CloseRequest
    \/ CloseSocket
    \/ CloseReturn
    \/ Enter
    \/ ExitRequest
    \/ ExitSocket
    \/ ExitReturn
    \/ IsOpen
    \/ WaitFrameCall
    \/ WaitFrameGet
    \/ WaitFrameTimeout
    \/ EmptyCall
    \/ EmptyTest
    \/ EmptyGet
    \/ RxTest
    \/ RxRecvFrame
    \/ RxRecvNone
    \/ RxRecvTimeout
    \/ RxRecvError

SpecConn == ConnInit /\ [][ConnNext]_vars

\* a step of the receiver thread
RxStep ==
    \/ RxTest
    \/ RxRecvFrame
    \/ RxRecvNone
    \/ RxRecvTimeout
    \/ RxRecvError

\* the receiver thread is scheduled and every tpsock.recv() ends, by a value,
\* by its timeout or by an error
SpecConnLive == ConnInit /\ [][ConnNext]_vars /\ WF_vars(RxStep)

-----------------------------------------------------------------------------
(* Properties of the Connection *)

IsPrefix(s, t) == Len(s) <= Len(t) /\ SubSeq(t, 1, Len(s)) = s

\* C5: as long as empty_rxqueue is not called, the frames wait_frame has returned
\* are, in order, a prefix of the frames recv has returned, and the frames not yet
\* returned are queued in that order.
C5_FifoOrder ==
    ~drained => /\ IsPrefix(delivered, recvlog)
                /\ recvlog = delivered \o rxqueue

\* two different frames have been returned by wait_frame while a third is queued
C5_Witness ==
    /\ ~drained
    /\ Len(delivered) >= 2
    /\ delivered[1] # delivered[2]
    /\ rxqueue # <<>>

\* C6: wait_frame on a connection that is not opened ends at once, without
\* touching the queue: it raises the "connection not open" error of line 71
\* when exception is true and returns None otherwise; on an opened connection
\* it waits, and ends either by returning the oldest queued frame, or, the
\* queue being empty at expiry, by raising the timeout condition of line 84
\* when exception is true and by returning None otherwise.
C6_WaitFrameOutcomes ==
    [][ /\ (WaitFrameCall /\ ~opened)
            => /\ callpc' = "idle"
               /\ rxqueue' = rxqueue
               /\ result'.op = "wait_frame"
               /\ result'.frame = "None"
               /\ result'.outcome = IF result'.exception
                                    THEN "raised RuntimeException"
                                    ELSE "returned None"
        /\ (WaitFrameCall /\ opened) => callpc' = "get" /\ rxqueue' = rxqueue
        /\ (callpc = "get" /\ callpc' # "get")
            => /\ callpc' = "idle"
               /\ result'.op = "wait_frame"
               /\ result'.exception = callarg.exception
               /\ \/ /\ rxqueue # <<>>
                     /\ result'.outcome = "returned frame"
                     /\ result'.frame = Head(rxqueue)
                     /\ rxqueue' = Tail(rxqueue)
                  \/ /\ rxqueue = <<>>
                     /\ rxqueue' = rxqueue
                     /\ result'.frame = "None"
                     /\ result'.outcome = IF callarg.exception
                                          THEN "raised TimeoutException"
                                          ELSE "returned None"
      ]_vars

\* the caller's step that ends open(), by its return or by an exception
OpenEnds == callpc \in {"open_start", "open_opened"} /\ callpc' = "idle"

\* the caller's step that ends close()
CloseEnds == callpc = "close_opened" /\ callpc' = "idle"

\* C7: open() takes the connection from Closed to Open, close() from Open to
\* Closed, and the open() of open(); close(); open() succeeds like the first:
\* it returns with the connection opened and the socket bound, and, unless a
\* read has failed meanwhile, with exit_requested false and the receiver
\* running.
C7_Reopen ==
    [][ /\ (OpenEnds /\ history \in {"o", "oco"})
            => /\ result'.outcome = "returned"
               /\ opened' /\ bound'
               /\ exit_requested' => rxerror'
               /\ rxpc' \in {"test", "recv"} \/ rxerror' \/ ~socket_defined
        /\ CloseEnds => ~opened' /\ ~bound' /\ exit_requested'
      ]_vars

\* C8: once the `with` block of a Connection is left, normally or by an
\* exception, exit_requested is set, the socket is closed and opened is false.
C8_ScopeExit ==
    [][ (scope /\ ~scope') => (exit_requested' /\ ~bound' /\ ~opened') ]_vars

\* the block of an opened connection has been left by an exception
C8_Witness ==
    /\ ~scope
    /\ result = Result("__exit__", "exception propagates")
    /\ rxthread = "started"
    /\ history = "oc"

\* C9: after recv has raised an error other than a timeout and the receiver
\* loop has ended, is_open() returns False; nothing but the caller's own timeout
\* ends a wait_frame in progress.
C9_FailureObservable ==
    [][ /\ (IsOpen /\ rxerror /\ rxpc = "done") => result'.outcome = "False"
        /\ (callpc = "get" /\ callpc' # "get" /\ rxerror /\ rxqueue = <<>>)
              => WaitFrameTimeout
      ]_vars

\* C17: an iteration of the receiver does one read; a frame read is appended
\* to the queue as it is; a timeout queues nothing, leaves exit_requested as it
\* was and goes to the next iteration; any other exception sets exit_requested
\* and the loop is left at its test; once the loop has ended it stays ended and
\* no frame is received.
C17_ReceiverIteration ==
    [][ /\ RxRecvFrame
            => /\ rxqueue' = Append(rxqueue, recvlog'[Len(recvlog')])
               /\ Len(recvlog') = Len(recvlog) + 1
               /\ exit_requested' = exit_requested
               /\ rxpc' = "test"
        /\ RxRecvTimeout
            => /\ rxqueue' = rxqueue
               /\ exit_requested' = exit_requested
               /\ rxpc' = "test"
        /\ RxRecvError => exit_requested' /\ rxqueue' = rxqueue
        /\ (RxTest /\ rxerror) => rxpc' = "done"
        /\ rxpc = "done" => rxpc' = "done" /\ recvlog' = recvlog
      ]_vars

\* close() has just returned: no other call has been made since
Closed ==
    /\ result.op \in {"close", "__exit__"}
    /\ callpc = "idle"

\* the receiver loop is not running
Stopped == rxpc \in {"idle", "done"}

\* C18: after close() has been called, the reads ending within their timeout,
\* the receiver eventually stops.
C18_ReceiverStops == Closed ~> Stopped

\* the frames that `who` took from the queue, in order
FramesTakenBy(who) ==
    LET idx == SelectSeq([i \in 1..Len(taken) |-> i], LAMBDA i : taken[i] = who)
    IN  [k \in 1..Len(idx) |-> recvlog[idx[k]]]

\* C19: the get of empty_rxqueue always finds a frame, so the call never
\* blocks; when it returns the queue is empty, so every frame queued at the call
\* has been removed; the frames leave the queue in the order they were
\* received, each taken once, and the frames wait_frame has returned are
\* exactly those it took itself, none of those empty_rxqueue removed.
C19_EmptyRxqueue ==
    /\ [](callpc = "empty_get" => rxqueue # <<>>)
    /\ [](rxqueue = SubSeq(recvlog, Len(taken) + 1, Len(recvlog)))
    /\ [](delivered = FramesTakenBy("wait"))
    /\ [][ (callpc \in {"empty_test", "empty_get"} /\ callpc' = "idle")
              => rxqueue' = <<>> /\ result'.op = "empty_rxqueue" ]_vars

\* empty_rxqueue has removed two frames and wait_frame has then returned the
\* third
C19_Witness ==
    /\ callpc = "idle"
    /\ taken = <<"empty", "empty", "wait">>
    /\ result.op = "wait_frame"
    /\ result.frame = recvlog[3]

\* C20: a wait_frame called while opened is false ends at once without a frame
\* and leaves the queue alone; while opened is false no frame is returned by
\* wait_frame nor taken from the queue by it; close() leaves the queue as it is.
C20_ClosedKeepsQueue ==
    [][ /\ (WaitFrameCall /\ ~opened)
            => /\ callpc' = "idle"
               /\ rxqueue' = rxqueue
               /\ result'.op = "wait_frame"
               /\ result'.frame = "None"
        /\ ~opened
            => /\ delivered' = delivered
               /\ taken' = taken \/ taken' = Append(taken, "empty")
        /\ (CloseRequest \/ CloseSocket \/ CloseReturn
                \/ ExitRequest \/ ExitSocket \/ ExitReturn)
            => rxqueue' = rxqueue
      ]_vars

\* after open() and close(), with a frame queued, wait_frame has returned None
C20_Witness ==
    /\ ~opened
    /\ history = "oc"
    /\ rxqueue # <<>>
    /\ result.op = "wait_frame"
    /\ result.outcome = "returned None"

=============================================================================
